---- MODULE Spec2Model ----
(***************************************************************************)
(* A model of server.py: the lazily created browser session (get_browser,  *)
(* get_browser_context), the tool/prompt/resource registrations and their  *)
(* handlers (read_resource and execute_command in detail).                 *)
(*                                                                         *)
(* Environment: the browser engine, the shell and the resource directory   *)
(* are outside the program.  An await of the engine, or the child process  *)
(* of a command, completes with any outcome the environment can produce.   *)
(* Resource files and captured process output are text.                    *)
(*                                                                         *)
(* engines, contexts, launchCalls, fast, doneBefore, firstContext,         *)
(* lastRead and spawns record what has happened; the program reads none    *)
(* of them.                                                                *)
(***************************************************************************)
EXTENDS Integers, Sequences, FiniteSets, TLC

(***************************************************************************)
(* Bounds of the model.                                                    *)
(***************************************************************************)
\* Number of coroutines that call get_browser() / get_browser_context().
NumTasks == 3
\* Longest captured stdout / stderr text of a command.
MaxLen == 3

(***************************************************************************)
(* Values.                                                                 *)
(***************************************************************************)
\* Python's None, for handles (handles are numbered from 1).
None == 0

Tasks == 1..NumTasks

VARIABLES
    \* ---- browser session (server.py 21-50)
    _browser,           \* global _browser: None or an engine handle
    _browser_context,   \* global _browser_context: None or a context handle
    engines,            \* engine handles created by chromium.launch() so far
    contexts,           \* contexts created so far: contexts[c] = engine of c
    launchCalls,        \* number of chromium.launch() invocations so far
    pc,                 \* pc[t]: where coroutine t is suspended
    op,                 \* op[t]: the function coroutine t called
    browser,            \* browser[t]: the local `browser` of get_browser_context
    ret,                \* ret[t]: the value returned to t's caller
    err,                \* err[t]: the await whose exception reached t's caller
    fast,               \* fast[t]: the call returned a memoized value at once
    doneBefore,         \* doneBefore[t]: the calls completed before t's call began
    firstContext        \* what the first successful get_browser_context returned

VARIABLES
    \* ---- the FastMCP application (server.py 16-19, 56-158)
    registry,           \* descriptors registered so far, in registration order
    running,            \* app.run() has been entered (line 154-158)
    request,            \* the invocation being served, or NoRequest
    reply,              \* the reply to the last request served, until the next
    lastRead,           \* the last read_resource reply before the current request
    \* ---- the environment of the handlers
    storage,            \* the resources directory: path -> entry
    proc,               \* the child process of the running execute_command
    spawns              \* shell executions started for the current invocation

toolVars == <<registry, running, request, reply, lastRead, storage, proc, spawns>>

sessionVars == <<_browser, _browser_context, engines, contexts, launchCalls,
                 pc, op, browser, ret, err, fast, doneBefore, firstContext>>

vars == <<sessionVars, toolVars>>

\* Calls that have completed (returned or raised).
Completed == {t \in Tasks : pc[t] \in {"returned", "raised"}}

InitSession ==
    /\ _browser = None
    /\ _browser_context = None
    /\ engines = {}
    /\ contexts = <<>>
    /\ launchCalls = 0
    /\ pc = [t \in Tasks |-> "idle"]
    /\ op = [t \in Tasks |-> "none"]
    /\ browser = [t \in Tasks |-> None]
    /\ ret = [t \in Tasks |-> None]
    /\ err = [t \in Tasks |-> "none"]
    /\ fast = [t \in Tasks |-> FALSE]
    /\ doneBefore = [t \in Tasks |-> {}]
    /\ firstContext = None

(***************************************************************************)
(* get_browser(), lines 25-39.  The coroutine suspends at                  *)
(* `await async_playwright().start()` and at `await ...chromium.launch()`. *)
(***************************************************************************)

\* Line 28-29 / 39: the call itself, up to its first suspension or return.
CallGetBrowser(t) ==
    /\ pc[t] = "idle"
    /\ op' = [op EXCEPT ![t] = "get_browser"]
    /\ doneBefore' = [doneBefore EXCEPT ![t] = Completed]
    /\ IF _browser = None
       THEN /\ pc' = [pc EXCEPT ![t] = "pw_start"]
            /\ UNCHANGED <<ret, fast>>
       ELSE /\ pc' = [pc EXCEPT ![t] = "returned"]
            /\ ret' = [ret EXCEPT ![t] = _browser]
            /\ fast' = [fast EXCEPT ![t] = TRUE]
    /\ UNCHANGED <<_browser, _browser_context, engines, contexts, launchCalls,
                   browser, err, firstContext>>
    /\ UNCHANGED toolVars

\* Line 29 resumes: playwright started; line 30 invokes chromium.launch().
PlaywrightStarted(t) ==
    /\ pc[t] = "pw_start"
    /\ pc' = [pc EXCEPT ![t] = "launch"]
    /\ launchCalls' = launchCalls + 1
    /\ UNCHANGED <<_browser, _browser_context, engines, contexts,
                   op, browser, ret, err, fast, doneBefore, firstContext>>
    /\ UNCHANGED toolVars

\* Line 29 raises: the exception propagates through every frame of t.
PlaywrightStartFailed(t) ==
    /\ pc[t] = "pw_start"
    /\ pc' = [pc EXCEPT ![t] = "raised"]
    /\ err' = [err EXCEPT ![t] = "start"]
    /\ UNCHANGED <<_browser, _browser_context, engines, contexts, launchCalls,
                   op, browser, ret, fast, doneBefore, firstContext>>
    /\ UNCHANGED toolVars

\* Line 30 resumes with a new engine: `_browser = <engine>`, line 39 returns
\* it.  Inside get_browser_context (line 45-46) the returned handle becomes
\* the local `browser` and new_context() is invoked on it.
LaunchDone(t) ==
    /\ pc[t] = "launch"
    /\ LET e == Cardinality(engines) + 1 IN
        /\ engines' = engines \cup {e}
        /\ _browser' = e
        /\ IF op[t] = "get_browser"
           THEN /\ pc' = [pc EXCEPT ![t] = "returned"]
                /\ ret' = [ret EXCEPT ![t] = e]
                /\ UNCHANGED browser
           ELSE /\ pc' = [pc EXCEPT ![t] = "new_context"]
                /\ browser' = [browser EXCEPT ![t] = e]
                /\ UNCHANGED ret
    /\ UNCHANGED <<_browser_context, contexts, launchCalls,
                   op, err, fast, doneBefore, firstContext>>
    /\ UNCHANGED toolVars

\* get_browser storing a handle although the launch raised.
LaunchFailed_assigned(t) ==
    /\ pc[t] = "launch"
    /\ pc' = [pc EXCEPT ![t] = "raised"]
    /\ err' = [err EXCEPT ![t] = "launch"]
    /\ _browser' = Cardinality(engines) + 1
    /\ UNCHANGED <<_browser_context, engines, contexts, launchCalls,
                   op, browser, ret, fast, doneBefore, firstContext>>
    /\ UNCHANGED toolVars

\* Line 30 raises: the assignment to _browser never happens.
LaunchFailed(t) ==
    /\ pc[t] = "launch"
    /\ pc' = [pc EXCEPT ![t] = "raised"]
    /\ err' = [err EXCEPT ![t] = "launch"]
    /\ UNCHANGED <<_browser, _browser_context, engines, contexts, launchCalls,
                   op, browser, ret, fast, doneBefore, firstContext>>
    /\ UNCHANGED toolVars

(***************************************************************************)
(* get_browser_context(), lines 41-50.  `await get_browser()` suspends     *)
(* only where get_browser does; `await browser.new_context()` suspends.    *)
(***************************************************************************)

\* Line 44-46 / 50: the call, up to its first suspension or return.
CallGetBrowserContext(t) ==
    /\ pc[t] = "idle"
    /\ op' = [op EXCEPT ![t] = "get_browser_context"]
    /\ doneBefore' = [doneBefore EXCEPT ![t] = Completed]
    /\ IF _browser_context # None
       THEN /\ pc' = [pc EXCEPT ![t] = "returned"]
            /\ ret' = [ret EXCEPT ![t] = _browser_context]
            /\ fast' = [fast EXCEPT ![t] = TRUE]
            /\ UNCHANGED browser
       ELSE IF _browser = None
       THEN /\ pc' = [pc EXCEPT ![t] = "pw_start"]
            /\ UNCHANGED <<ret, fast, browser>>
       ELSE /\ pc' = [pc EXCEPT ![t] = "new_context"]
            /\ browser' = [browser EXCEPT ![t] = _browser]
            /\ UNCHANGED <<ret, fast>>
    /\ UNCHANGED <<_browser, _browser_context, engines, contexts, launchCalls,
                   err, firstContext>>
    /\ UNCHANGED toolVars

\* Line 46 resumes with a new context of the local `browser`:
\* `_browser_context = <context>`, line 50 returns it.
NewContextDone(t) ==
    /\ pc[t] = "new_context"
    /\ LET c == Len(contexts) + 1 IN
        /\ contexts' = Append(contexts, browser[t])
        /\ _browser_context' = c
        /\ ret' = [ret EXCEPT ![t] = c]
        /\ firstContext' = IF firstContext = None THEN c ELSE firstContext
    /\ pc' = [pc EXCEPT ![t] = "returned"]
    /\ UNCHANGED <<_browser, engines, launchCalls,
                   op, browser, err, fast, doneBefore>>
    /\ UNCHANGED toolVars

\* Line 46 raises: the assignment to _browser_context never happens.
NewContextFailed(t) ==
    /\ pc[t] = "new_context"
    /\ pc' = [pc EXCEPT ![t] = "raised"]
    /\ err' = [err EXCEPT ![t] = "new_context"]
    /\ UNCHANGED <<_browser, _browser_context, engines, contexts, launchCalls,
                   op, browser, ret, fast, doneBefore, firstContext>>
    /\ UNCHANGED toolVars

NextSession ==
    \/ \E t \in Tasks : CallGetBrowser(t)
    \/ \E t \in Tasks : CallGetBrowserContext(t)
    \/ \E t \in Tasks : PlaywrightStarted(t)
    \/ \E t \in Tasks : PlaywrightStartFailed(t)
    \/ \E t \in Tasks : LaunchDone(t)
    \/ \E t \in Tasks : LaunchFailed(t)
    \/ \E t \in Tasks : NewContextDone(t)
    \/ \E t \in Tasks : NewContextFailed(t)

(***************************************************************************)
(* Registrations, lines 56-151: the decorators run once, in file order,    *)
(* when the module is loaded; app.run() (154-158) then serves requests.    *)
(***************************************************************************)

\* @app.tool / @app.prompt / @app.resource, with the name each one is given
\* ("" where the decorator is given none) and the function it decorates.
Decorators == <<
    [kind |-> "tool",     name |-> "echo",               fn |-> "echo"],
    [kind |-> "tool",     name |-> "add",                fn |-> "add"],
    [kind |-> "tool",     name |-> "get_time",           fn |-> "get_time"],
    [kind |-> "tool",     name |-> "read_resource",      fn |-> "read_resource"],
    [kind |-> "tool",     name |-> "",                   fn |-> "execute_command"],
    [kind |-> "prompt",   name |-> "hello",              fn |-> "hello_prompt"],
    [kind |-> "prompt",   name |-> "sum",                fn |-> "sum_prompt"],
    [kind |-> "prompt",   name |-> "web_scrape",         fn |-> "web_scrape_prompt"],
    [kind |-> "resource", name |-> "res://greeting.txt", fn |-> "greeting_resource"],
    [kind |-> "resource", name |-> "res://time.json",    fn |-> "time_resource"] >>

\* Registration under the name as written, without the function's name.
RegisteredName_verbatim(d) == d.name

\* A tool registered without a name goes by its function's name (line 84-85).
RegisteredName(d) == IF d.name = "" THEN d.fn ELSE d.name

Descriptor(d) == [kind |-> d.kind, name |-> RegisteredName(d), fn |-> d.fn]

\* The next decorator of the file runs.
Register ==
    /\ ~running
    /\ Len(registry) < Len(Decorators)
    /\ registry' = Append(registry, Descriptor(Decorators[Len(registry) + 1]))
    /\ UNCHANGED <<running, request, reply, lastRead, storage, proc, spawns>>
    /\ UNCHANGED sessionVars

\* Line 154-158: the module is loaded; app.run() starts serving.
Serve ==
    /\ ~running
    /\ Len(registry) = Len(Decorators)
    /\ running' = TRUE
    /\ UNCHANGED <<registry, request, reply, lastRead, storage, proc, spawns>>
    /\ UNCHANGED sessionVars

NoRequest == [kind |-> "none", name |-> "none", fn |-> "none", arg |-> <<>>]
NoReply == [fn |-> "none", arg |-> <<>>, result |-> {}, error |-> {}]
NoProc == [state |-> "none", rc |-> 0, out |-> <<>>, err |-> <<>>]

\* A reply is a returned value or a raised exception: each field holds at
\* most one element.
Returned(v) == [fn |-> request.fn, arg |-> request.arg, result |-> {v}, error |-> {}]
Raised(type, message) ==
    [fn |-> request.fn, arg |-> request.arg, result |-> {},
     error |-> {[type |-> type, message |-> message]}]

\* The client invokes the registered (kind, name) with arguments arg; the
\* application hands it to the function registered under that key.
Receive(kind, name, arg) ==
    /\ running
    /\ request = NoRequest
    /\ \E i \in 1..Len(registry) :
        /\ registry[i].kind = kind
        /\ registry[i].name = name
        /\ request' = [kind |-> kind, name |-> name, fn |-> registry[i].fn,
                       arg |-> arg]
    /\ reply' = NoReply
    /\ lastRead' = IF reply.fn = "read_resource" THEN reply ELSE lastRead
    /\ proc' = NoProc
    /\ spawns' = 0
    /\ UNCHANGED <<registry, running, storage>>
    /\ UNCHANGED sessionVars

(***************************************************************************)
(* The stateless tools, lines 56-72.                                       *)
(***************************************************************************)
Texts == {"", "hi"}
Numbers == 0..1
Times == 1..2

\* Line 56-59.
echo ==
    /\ request.fn = "echo"
    /\ reply' = Returned(request.arg[1])
    /\ request' = NoRequest
    /\ UNCHANGED <<registry, running, lastRead, storage, proc, spawns>>
    /\ UNCHANGED sessionVars

\* Line 62-65.
add ==
    /\ request.fn = "add"
    /\ reply' = Returned(request.arg[1] + request.arg[2])
    /\ request' = NoRequest
    /\ UNCHANGED <<registry, running, lastRead, storage, proc, spawns>>
    /\ UNCHANGED sessionVars

\* Line 68-72: the current UTC time in one of two formats.
get_time ==
    /\ request.fn = "get_time"
    /\ \E now \in Times :
        reply' = Returned(IF request.arg[1] THEN <<"isoformat", now>>
                                            ELSE <<"strftime", now>>)
    /\ request' = NoRequest
    /\ UNCHANGED <<registry, running, lastRead, storage, proc, spawns>>
    /\ UNCHANGED sessionVars

(***************************************************************************)
(* read_resource, lines 75-81, and the resources directory.                *)
(***************************************************************************)
ResourceNames == {"greeting.txt", "notes"}
Contents == {"Hello", "Bye"}

\* Line 78: <package root> / "resources" / name.
ResourcePath(name) == <<"resources", name>>

Paths == {ResourcePath(n) : n \in ResourceNames}

Absent == [type |-> "absent", text |-> ""]
Directory == [type |-> "dir", text |-> ""]
File(text) == [type |-> "file", text |-> text]

\* Path.exists(), Path.is_file().
exists(p) == storage[p].type # "absent"
is_file(p) == storage[p].type = "file"

\* read_resource with a cache: a name read before is answered from memory.
read_resource_cached ==
    /\ request.fn = "read_resource"
    /\ LET name == request.arg[1]
           resource_path == ResourcePath(name) IN
        reply' = IF lastRead.arg = request.arg /\ lastRead.result # {}
                 THEN lastRead
                 ELSE IF ~exists(resource_path) \/ ~is_file(resource_path)
                 THEN Raised("FileNotFoundError", <<"Resource not found: ", name>>)
                 ELSE Returned(storage[resource_path].text)
    /\ request' = NoRequest
    /\ UNCHANGED <<registry, running, lastRead, storage, proc, spawns>>
    /\ UNCHANGED sessionVars

\* Line 76-81.
read_resource ==
    /\ request.fn = "read_resource"
    /\ LET name == request.arg[1]
           resource_path == ResourcePath(name) IN
        reply' = IF ~exists(resource_path) \/ ~is_file(resource_path)
                 THEN Raised("FileNotFoundError", <<"Resource not found: ", name>>)
                 ELSE Returned(storage[resource_path].text)
    /\ request' = NoRequest
    /\ UNCHANGED <<registry, running, lastRead, storage, proc, spawns>>
    /\ UNCHANGED sessionVars

\* Another process writes, deletes or replaces a file of the directory.
ExternalWrite(p, text) ==
    /\ storage[p].type # "dir"
    /\ storage[p] # File(text)
    /\ storage' = [storage EXCEPT ![p] = File(text)]
    /\ UNCHANGED <<registry, running, request, reply, lastRead, proc, spawns>>
    /\ UNCHANGED sessionVars

ExternalDelete(p) ==
    /\ storage[p].type # "absent"
    /\ storage' = [storage EXCEPT ![p] = Absent]
    /\ UNCHANGED <<registry, running, request, reply, lastRead, proc, spawns>>
    /\ UNCHANGED sessionVars

ExternalMkdir(p) ==
    /\ storage[p].type = "absent"
    /\ storage' = [storage EXCEPT ![p] = Directory]
    /\ UNCHANGED <<registry, running, request, reply, lastRead, proc, spawns>>
    /\ UNCHANGED sessionVars

(***************************************************************************)
(* execute_command, lines 84-99.  subprocess.run(shell=True, check=True,   *)
(* text=True, capture_output=True) starts one shell, waits for it to exit  *)
(* and raises CalledProcessError when its exit status is not zero.         *)
(***************************************************************************)
Commands == {"exit 0", "exit 1", "echo hi"}

\* Characters of the captured text; the first two are whitespace.
Chars == {" ", "\n", "a"}
Whitespace == {" ", "\n"}

\* Exit statuses (negative: the shell was killed by a signal).
ExitCodes == {0, 1, 127, -9}

\* Captured text: every string over Chars of at most MaxLen characters.
Captured == UNION {[1..n -> Chars] : n \in 0..MaxLen}

\* str.lstrip(), str.rstrip(), str.strip() without arguments.
RECURSIVE lstrip(_)
lstrip(s) ==
    IF s # <<>> /\ Head(s) \in Whitespace THEN lstrip(Tail(s)) ELSE s

RECURSIVE rstrip(_)
rstrip(s) ==
    IF s # <<>> /\ s[Len(s)] \in Whitespace
    THEN rstrip(SubSeq(s, 1, Len(s) - 1))
    ELSE s

strip(s) == rstrip(lstrip(s))

\* Line 90-96, first half: subprocess.run starts the shell on the command.
execute_command_start ==
    /\ request.fn = "execute_command"
    /\ proc.state = "none"
    /\ proc' = [proc EXCEPT !.state = "running"]
    /\ spawns' = spawns + 1
    /\ UNCHANGED <<registry, running, request, reply, lastRead, storage>>
    /\ UNCHANGED sessionVars

\* The shell exits with a status, having written its output.
child_exit ==
    /\ proc.state = "running"
    /\ \E rc \in ExitCodes, out \in Captured, errtext \in Captured :
        proc' = [state |-> "exited", rc |-> rc, out |-> out, err |-> errtext]
    /\ UNCHANGED <<registry, running, request, reply, lastRead, storage, spawns>>
    /\ UNCHANGED sessionVars

\* execute_command without check=True: the exit status is ignored.
execute_command_finish_unchecked ==
    /\ request.fn = "execute_command"
    /\ proc.state = "exited"
    /\ reply' = Returned(strip(proc.out))
    /\ request' = NoRequest
    /\ proc' = NoProc
    /\ UNCHANGED <<registry, running, lastRead, storage, spawns>>
    /\ UNCHANGED sessionVars

\* execute_command that runs a failed command once more before it raises.
execute_command_finish_retry ==
    /\ request.fn = "execute_command"
    /\ proc.state = "exited"
    /\ IF proc.rc = 0
       THEN /\ reply' = Returned(strip(proc.out))
            /\ request' = NoRequest
            /\ proc' = NoProc
            /\ UNCHANGED spawns
       ELSE IF spawns < 2
       THEN /\ proc' = [NoProc EXCEPT !.state = "running"]
            /\ spawns' = spawns + 1
            /\ UNCHANGED <<request, reply>>
       ELSE /\ reply' = Raised("RuntimeError",
                               <<"Command failed with error: ">> \o strip(proc.err))
            /\ request' = NoRequest
            /\ proc' = NoProc
            /\ UNCHANGED spawns
    /\ UNCHANGED <<registry, running, lastRead, storage>>
    /\ UNCHANGED sessionVars

\* Line 90-99, second half: the shell has exited and been reaped;
\* subprocess.run returns the CompletedProcess (line 97) or raises
\* CalledProcessError (line 98-99).  Nothing of the child outlives the call.
execute_command_finish ==
    /\ request.fn = "execute_command"
    /\ proc.state = "exited"
    /\ reply' = IF proc.rc = 0
                THEN Returned(strip(proc.out))
                ELSE Raised("RuntimeError",
                            <<"Command failed with error: ">> \o strip(proc.err))
    /\ request' = NoRequest
    /\ proc' = NoProc
    /\ UNCHANGED <<registry, running, lastRead, storage, spawns>>
    /\ UNCHANGED sessionVars

(***************************************************************************)
(* Prompts, lines 105-131.                                                 *)
(***************************************************************************)
PersonNames == {"world", "Ada"}
NumberLists == {<<>>, <<1>>, <<1, 0>>}
Urls == {"http://a.example"}
DataTypes == {"general", "prices"}

\* ", ".join(str(n) for n in numbers), line 114.
RECURSIVE join(_)
join(numbers) ==
    IF numbers = <<>> THEN <<>>
    ELSE IF Len(numbers) = 1 THEN << <<"str", numbers[1]>> >>
    ELSE << <<"str", numbers[1]>>, ", " >> \o join(Tail(numbers))

\* Line 105-108.
hello_prompt ==
    /\ request.fn = "hello_prompt"
    /\ reply' = Returned(<<"Hello, ", request.arg[1],
                  "! I am an MCP server with browser capabilities. How can I help?">>)
    /\ request' = NoRequest
    /\ UNCHANGED <<registry, running, lastRead, storage, proc, spawns>>
    /\ UNCHANGED sessionVars

\* Line 111-118.
sum_prompt ==
    /\ request.fn = "sum_prompt"
    /\ reply' = Returned(<<"You are a calculator. Sum the following numbers and return only the number.\n",
                           "Numbers: ">> \o join(request.arg[1]))
    /\ request' = NoRequest
    /\ UNCHANGED <<registry, running, lastRead, storage, proc, spawns>>
    /\ UNCHANGED sessionVars

\* Line 120-131.
web_scrape_prompt ==
    /\ request.fn = "web_scrape_prompt"
    /\ reply' = Returned(<<"You are a web scraping assistant. Please analyze the website at ",
                           request.arg[1], " and extract ", request.arg[2],
                           " information. ... 3. Extract relevant ", request.arg[2],
                           " data ...">>)
    /\ request' = NoRequest
    /\ UNCHANGED <<registry, running, lastRead, storage, proc, spawns>>
    /\ UNCHANGED sessionVars

(***************************************************************************)
(* Resources, lines 137-151.                                               *)
(***************************************************************************)

\* Line 137-141: read_text of resources/greeting.txt, unchecked.
greeting_resource ==
    /\ request.fn = "greeting_resource"
    /\ LET path == ResourcePath("greeting.txt") IN
        reply' = IF ~exists(path)
                 THEN Raised("FileNotFoundError", <<"greeting.txt">>)
                 ELSE IF ~is_file(path)
                 THEN Raised("IsADirectoryError", <<"greeting.txt">>)
                 ELSE Returned(storage[path].text)
    /\ request' = NoRequest
    /\ UNCHANGED <<registry, running, lastRead, storage, proc, spawns>>
    /\ UNCHANGED sessionVars

\* Line 144-151.
time_resource ==
    /\ request.fn = "time_resource"
    /\ \E now \in Times :
        reply' = Returned([utc |-> <<"isoformat", now>>, epoch |-> now])
    /\ request' = NoRequest
    /\ UNCHANGED <<registry, running, lastRead, storage, proc, spawns>>
    /\ UNCHANGED sessionVars

(***************************************************************************)
(* Specifications.                                                         *)
(***************************************************************************)
InitTools ==
    /\ registry = <<>>
    /\ running = FALSE
    /\ request = NoRequest
    /\ reply = NoReply
    /\ lastRead = NoReply
    /\ storage = [p \in Paths |->
                    IF p = ResourcePath("greeting.txt") THEN File("Hello")
                    ELSE Absent]
    /\ proc = NoProc
    /\ spawns = 0

Init == InitSession /\ InitTools

\* Coroutines calling get_browser() and get_browser_context().
SpecSession == Init /\ [][NextSession]_vars

\* The server serving execute_command invocations.
NextCommand ==
    \/ Register
    \/ Serve
    \/ \E c \in Commands : Receive("tool", "execute_command", <<c>>)
    \/ execute_command_start
    \/ child_exit
    \/ execute_command_finish

SpecCommand == Init /\ [][NextCommand]_vars

\* The server serving read_resource invocations while the directory changes.
NextResource ==
    \/ Register
    \/ Serve
    \/ \E n \in ResourceNames : Receive("tool", "read_resource", <<n>>)
    \/ read_resource
    \/ \E p \in Paths, text \in Contents : ExternalWrite(p, text)
    \/ \E p \in Paths : ExternalDelete(p)
    \/ \E p \in Paths : ExternalMkdir(p)

SpecResource == Init /\ [][NextResource]_vars

\* The server serving every registered tool, prompt and resource.
NextRegistry ==
    \/ Register
    \/ Serve
    \/ \E text \in Texts : Receive("tool", "echo", <<text>>)
    \/ \E a \in Numbers, b \in Numbers : Receive("tool", "add", <<a, b>>)
    \/ \E iso \in BOOLEAN : Receive("tool", "get_time", <<iso>>)
    \/ \E n \in ResourceNames : Receive("tool", "read_resource", <<n>>)
    \/ \E c \in Commands : Receive("tool", "execute_command", <<c>>)
    \/ \E n \in PersonNames : Receive("prompt", "hello", <<n>>)
    \/ \E ns \in NumberLists : Receive("prompt", "sum", <<ns>>)
    \/ \E u \in Urls, d \in DataTypes : Receive("prompt", "web_scrape", <<u, d>>)
    \/ Receive("resource", "res://greeting.txt", <<>>)
    \/ Receive("resource", "res://time.json", <<>>)
    \/ echo
    \/ add
    \/ get_time
    \/ read_resource
    \/ execute_command_start
    \/ child_exit
    \/ execute_command_finish
    \/ hello_prompt
    \/ sum_prompt
    \/ web_scrape_prompt
    \/ greeting_resource
    \/ time_resource

SpecRegistry == Init /\ [][NextRegistry]_vars

(***************************************************************************)
(* Properties of the browser session (SpecSession).                        *)
(***************************************************************************)
Called(t) == pc[t] # "idle"
Overlap(t1, t2) ==
    /\ Called(t1) /\ Called(t2)
    /\ t1 \notin doneBefore[t2]
    /\ t2 \notin doneBefore[t1]

\* The get_browser() calls that found no memoized engine.
FirstBrowserCalls == {t \in Tasks : op[t] = "get_browser" /\ ~fast[t]}

\* C1: when two or more get_browser() calls overlap while no engine is
\* memoized, and they are the only calls made, exactly one launch is performed
\* and all of them return the same engine handle.
C1_ConcurrentFirstCallsLaunchOnce ==
    ( /\ Cardinality(FirstBrowserCalls) >= 2
      /\ \A t \in Tasks : Called(t) => t \in FirstBrowserCalls
      /\ \A t1, t2 \in FirstBrowserCalls : t1 # t2 => Overlap(t1, t2)
      /\ \A t \in FirstBrowserCalls : pc[t] = "returned" )
    => /\ launchCalls = 1
       /\ \A t1, t2 \in FirstBrowserCalls : ret[t1] = ret[t2]

\* C2: in every reachable state at most one engine handle and at most one
\* browsing context have been created (none is ever closed, so all are live).
C2_AtMostOneEngineAndContext ==
    /\ Cardinality(engines) <= 1
    /\ Len(contexts) <= 1

\* C3: a step in which the engine launch of a call fails ends that call with
\* the failure and no return value, creates no engine and leaves the memoized
\* engine and context as they were (unset stays unset); every handle a call
\* returns, and every memoized handle, comes from a launch or a context
\* creation that succeeded; and a call that finds nothing memoized starts a
\* fresh initialization instead of returning anything.
C3_FailedLaunchLeavesSessionUnset ==
    /\ [](/\ _browser \in engines \cup {None}
          /\ _browser_context \in (1..Len(contexts)) \cup {None}
          /\ \A t \in Tasks :
                /\ pc[t] = "returned" /\ op[t] = "get_browser"
                       => ret[t] \in engines
                /\ pc[t] = "returned" /\ op[t] = "get_browser_context"
                       => ret[t] \in 1..Len(contexts)
                /\ pc[t] = "raised" => ret[t] = None /\ err[t] # "none")
    /\ [][\A t \in Tasks :
            /\ (pc[t] = "launch" /\ pc'[t] = "raised")
                  => /\ err'[t] = "launch"
                     /\ ret'[t] = None
                     /\ engines' = engines
                     /\ _browser' = _browser
                     /\ _browser_context' = _browser_context
            /\ (pc[t] = "idle" /\ pc'[t] # "idle" /\ _browser = None)
                  => /\ pc'[t] = "pw_start"
                     /\ ret'[t] = None]_vars

\* A launch failed, nothing is memoized, and a later call is initializing anew.
C3_Witness ==
    \E t1, t2 \in Tasks :
        /\ pc[t1] = "raised" /\ err[t1] = "launch"
        /\ t1 \in doneBefore[t2]
        /\ pc[t2] = "launch"
        /\ _browser = None /\ _browser_context = None

\* The get_browser_context() calls begun after one had already returned.
LaterContextCalls ==
    {t \in Tasks :
        /\ op[t] = "get_browser_context"
        /\ \E f \in doneBefore[t] :
              op[f] = "get_browser_context" /\ pc[f] = "returned"}

\* C4: every get_browser_context() call begun after the first successful one
\* has completed returns the very context the first call returned, without
\* creating a context or launching an engine.
C4_LaterCallsReturnFirstContext ==
    \A t \in LaterContextCalls :
        pc[t] = "returned" => ret[t] = firstContext /\ fast[t]

Ready == _browser # None /\ _browser_context # None

\* C8: once the session is Ready (engine and context memoized), no step
\* unsets or replaces the memoized engine or the memoized context.
C8_ReadyIsTerminal ==
    [][Ready => /\ _browser' = _browser
                /\ _browser_context' = _browser_context]_vars

\* C10: whenever both are memoized, the memoized context was created from
\* the memoized engine.
C10_ContextBelongsToMemoizedEngine ==
    Ready => contexts[_browser_context] = _browser

(***************************************************************************)
(* Properties of execute_command (SpecCommand).                            *)
(***************************************************************************)

\* t is s without its leading and trailing whitespace.
IsTrimOf(t, s) ==
    \E i, j \in 0..Len(s) :
        /\ i + j <= Len(s)
        /\ t = SubSeq(s, i + 1, Len(s) - j)
        /\ \A k \in 1..i : s[k] \in Whitespace
        /\ \A k \in (Len(s) - j + 1)..Len(s) : s[k] \in Whitespace
        /\ t # <<>> => t[1] \notin Whitespace /\ t[Len(t)] \notin Whitespace

\* The step in which execute_command answers its caller.
CommandAnswered == request.fn = "execute_command" /\ request' = NoRequest

\* C5: execute_command answers with exactly one of a result and an error:
\* on a nonzero exit status an error carrying the trimmed captured stderr,
\* on exit status zero the trimmed captured stdout.
C5_ExitStatusDecidesOutcome ==
    [][CommandAnswered =>
        /\ Cardinality(reply'.result) + Cardinality(reply'.error) = 1
        /\ proc.rc # 0 =>
              \E e \in reply'.error :
                  /\ e.type = "RuntimeError"
                  /\ Head(e.message) = "Command failed with error: "
                  /\ IsTrimOf(Tail(e.message), proc.err)
        /\ proc.rc = 0 =>
              \E v \in reply'.result : IsTrimOf(v, proc.out)]_vars

\* A failed command answered with text that was trimmed on both sides and
\* kept its inner whitespace.
C5_Witness ==
    /\ request = NoRequest
    /\ reply.fn = "execute_command"
    /\ reply.result = {}
    /\ \E e \in reply.error : e.message = <<"Command failed with error: ", "a", " ", "a">>

\* C6: an execute_command invocation never has more than one shell execution,
\* and when it answers, with a result or an error, exactly one was started
\* and that child process has exited.
C6_OneExecutionReapedBeforeReturn ==
    /\ [](spawns <= 1)
    /\ [][CommandAnswered => spawns = 1 /\ proc.state = "exited"]_vars

\* A command that failed was answered after a single execution.
C6_Witness ==
    /\ request = NoRequest
    /\ reply.fn = "execute_command"
    /\ reply.error # {}
    /\ spawns = 1
    /\ proc.state = "none"

(***************************************************************************)
(* Properties of read_resource (SpecResource).                             *)
(***************************************************************************)

\* C7: the answer of read_resource(name) is decided by the directory as it is
\* when the call runs: FileNotFoundError exactly when the path is absent or
\* not a regular file, else the text the file holds now; the read changes
\* nothing in the directory.
C7_ReadReflectsCurrentStorage ==
    [][\A n \in ResourceNames :
        (request.fn = "read_resource" /\ request.arg = <<n>>
            /\ request' = NoRequest)
        => LET e == storage[ResourcePath(n)] IN
            /\ storage' = storage
            /\ e.type \in {"absent", "dir"} =>
                  /\ reply'.result = {}
                  /\ \E x \in reply'.error : x.type = "FileNotFoundError"
            /\ e.type = "file" =>
                  /\ reply'.error = {}
                  /\ reply'.result = {e.text}]_vars

\* Two reads of one name with a modification between them: the second
\* answer is the new text, not the text read before.
C7_Witness ==
    /\ reply.fn = "read_resource"
    /\ lastRead.arg = reply.arg
    /\ lastRead.result = {"Hello"}
    /\ reply.result = {"Bye"}

(***************************************************************************)
(* Properties of the registrations (SpecRegistry).                         *)
(***************************************************************************)
RegisteredNames(kind) ==
    {registry[i].name : i \in {j \in 1..Len(registry) : registry[j].kind = kind}}

\* C9: while the server runs, the registry holds exactly the five tools,
\* three prompts and two resources, each (kind, name) once, and no step
\* (no dispatch, successful or failed) changes it.
C9_RegistryFixedAfterStartup ==
    /\ [](running =>
            /\ RegisteredNames("tool") =
                 {"echo", "add", "get_time", "read_resource", "execute_command"}
            /\ RegisteredNames("prompt") = {"hello", "sum", "web_scrape"}
            /\ RegisteredNames("resource") =
                 {"res://greeting.txt", "res://time.json"}
            /\ Len(registry) = Len(Decorators)
            /\ \A i, j \in 1..Len(registry) :
                  (registry[i].kind = registry[j].kind
                     /\ registry[i].name = registry[j].name) => i = j)
    /\ [][running => registry' = registry]_vars

\* A dispatch has failed and the registry is complete.
C9_Witness ==
    /\ running
    /\ request = NoRequest
    /\ reply.error # {}
    /\ Len(registry) = Len(Decorators)

====
